---- MODULE Spec2Model ----
(***************************************************************************)
(* Model of the aws-ssm-put-on-ec2 action: a local file is uploaded to S3  *)
(* (uploadFileToS3), an SSM shell command is sent that makes the instance  *)
(* copy it from S3 (transferFileViaSSM), and the command's status is       *)
(* polled until it is terminal or the attempt budget is used up            *)
(* (waitForCommandCompletion).  run() sequences the stages and reports     *)
(* one outcome through core.info / core.setFailed.                         *)
(*                                                                         *)
(* JavaScript strings are sequences of one-character strings, so that      *)
(* template literals are concatenations and toLowerCase, basename and      *)
(* replace are computed character by character.                            *)
(***************************************************************************)
EXTENDS Integers, Sequences, FiniteSets, TLC

\* ------------------------------------------------------------------------
\* Bounds of the model
\* ------------------------------------------------------------------------

\* largest maxAttempts argument of a direct call of waitForCommandCompletion
MaxAttemptsArg == 4

\* largest value read from Date.now()
MaxClock == 10

\* ------------------------------------------------------------------------
\* Program constants
\* ------------------------------------------------------------------------

\* default of the maxAttempts parameter
DefaultMaxAttempts == 60

\* default of the delayMs parameter
DefaultDelayMs == 2000

\* divisor of the timeout message, (maxAttempts * delayMs) / 1000
MsPerSecond == 1000

\* ------------------------------------------------------------------------
\* String literals of the source
\* ------------------------------------------------------------------------

\* "Success"
StatusSuccess ==
    <<"S","u","c","c","e","s","s">>
\* "Failed"
StatusFailed ==
    <<"F","a","i","l","e","d">>
\* "Cancelled"
StatusCancelled ==
    <<"C","a","n","c","e","l","l","e","d">>
\* "InProgress"
StatusInProgress ==
    <<"I","n","P","r","o","g","r","e","s","s">>
\* "Pending"
StatusPending ==
    <<"P","e","n","d","i","n","g">>
\* "Delayed"
StatusDelayed ==
    <<"D","e","l","a","y","e","d">>
\* "InvocationDoesNotExist"
InvocationDoesNotExist ==
    <<"I","n","v","o","c","a","t","i","o","n","D","o","e","s","N","o","t","E","x","i","s","t">>
\* "Error"
ErrorName ==
    <<"E","r","r","o","r">>
\* "No error output"
NoErrorOutput ==
    <<"N","o"," ","e","r","r","o","r"," ","o","u","t","p","u","t">>
\* "SSM command "
SsmCommandPrefix ==
    <<"S","S","M"," ","c","o","m","m","a","n","d"," ">>
\* ": "
ColonSpace ==
    <<":"," ">>
\* "Unexpected SSM command status: "
UnexpectedStatusPrefix ==
    <<"U","n","e","x","p","e","c","t","e","d"," ","S","S","M"," ","c","o","m","m","a","n","d"," ","s","t","a","t","u","s",":"," ">>
\* "undefined"
UndefinedText ==
    <<"u","n","d","e","f","i","n","e","d">>
\* "SSM command did not complete within "
TimeoutPrefix ==
    <<"S","S","M"," ","c","o","m","m","a","n","d"," ","d","i","d"," ","n","o","t"," ","c","o","m","p","l","e","t","e"," ","w","i","t","h","i","n"," ">>
\* " seconds"
TimeoutSuffix ==
    <<" ","s","e","c","o","n","d","s">>
\* "Failed to transfer file via SSM: "
TransferFailedPrefix ==
    <<"F","a","i","l","e","d"," ","t","o"," ","t","r","a","n","s","f","e","r"," ","f","i","l","e"," ","v","i","a"," ","S","S","M",":"," ">>
\* "SSM command was sent but no CommandId was returned"
NoCommandIdMessage ==
    <<"S","S","M"," ","c","o","m","m","a","n","d"," ","w","a","s"," ","s","e","n","t"," ","b","u","t"," ","n","o"," ","C","o","m","m","a","n","d","I","d"," ","w","a","s"," ","r","e","t","u","r","n","e","d">>
\* "Failed to upload file to S3: "
UploadFailedPrefix ==
    <<"F","a","i","l","e","d"," ","t","o"," ","u","p","l","o","a","d"," ","f","i","l","e"," ","t","o"," ","S","3",":"," ">>
\* "Cannot access local file: "
CannotAccessPrefix ==
    <<"C","a","n","n","o","t"," ","a","c","c","e","s","s"," ","l","o","c","a","l"," ","f","i","l","e",":"," ">>
\* ". "
DotSpace ==
    <<"."," ">>
\* " is not a file"
NotAFileSuffix ==
    <<" ","i","s"," ","n","o","t"," ","a"," ","f","i","l","e">>
\* "github-actions-transfer/"
KeyPrefix ==
    <<"g","i","t","h","u","b","-","a","c","t","i","o","n","s","-","t","r","a","n","s","f","e","r","/">>
\* "s3://"
S3Scheme ==
    <<"s","3",":","/","/">>
\* "mkdir -p $(dirname "
MkdirPrefix ==
    <<"m","k","d","i","r"," ","-","p"," ","$","(","d","i","r","n","a","m","e"," ">>
\* ")"
CloseParen ==
    <<")">>
\* "aws s3 cp "
CopyPrefix ==
    <<"a","w","s"," ","s","3"," ","c","p"," ">>
\* " "
Space ==
    <<" ">>
\* 'echo "File transferred successfully to '
EchoPrefix ==
    <<"e","c","h","o"," ","\"","F","i","l","e"," ","t","r","a","n","s","f","e","r","r","e","d"," ","s","u","c","c","e","s","s","f","u","l","l","y"," ","t","o"," ">>
\* '"'
DoubleQuote ==
    <<"\"">>
\* "An unknown error occurred"
UnknownErrorMessage ==
    <<"A","n"," ","u","n","k","n","o","w","n"," ","e","r","r","o","r"," ","o","c","c","u","r","r","e","d">>
\* "File transfer completed successfully!"
SuccessMessage ==
    <<"F","i","l","e"," ","t","r","a","n","s","f","e","r"," ","c","o","m","p","l","e","t","e","d"," ","s","u","c","c","e","s","s","f","u","l","l","y","!">>
\* "Input required and not supplied: "
InputRequiredPrefix ==
    <<"I","n","p","u","t"," ","r","e","q","u","i","r","e","d"," ","a","n","d"," ","n","o","t"," ","s","u","p","p","l","i","e","d",":"," ">>
\* "local-path"
InputLocalPath ==
    <<"l","o","c","a","l","-","p","a","t","h">>
\* "remote-path"
InputRemotePath ==
    <<"r","e","m","o","t","e","-","p","a","t","h">>
\* "instance"
InputInstance ==
    <<"i","n","s","t","a","n","c","e">>
\* "intermediate-s3"
InputIntermediateS3 ==
    <<"i","n","t","e","r","m","e","d","i","a","t","e","-","s","3">>
\* ", stat '"
StatSuffix ==
    <<","," ","s","t","a","t"," ","'">>
\* ", open '"
OpenSuffix ==
    <<","," ","o","p","e","n"," ","'">>
\* "'"
SingleQuote ==
    <<"'">>
\* "-"
Dash ==
    <<"-">>
\* "/"
Slash ==
    <<"/">>
\* "AWS-RunShellScript"
RunShellScript ==
    <<"A","W","S","-","R","u","n","S","h","e","l","l","S","c","r","i","p","t">>

\* ------------------------------------------------------------------------
\* Input values the environment is drawn from
\* ------------------------------------------------------------------------

\* "ok"
TextOk ==
    <<"o","k">>
\* "disk full"
TextDiskFull ==
    <<"d","i","s","k"," ","f","u","l","l">>
\* "Throttled"
TextThrottled ==
    <<"T","h","r","o","t","t","l","e","d">>
\* "failed"
TextFailedLower ==
    <<"f","a","i","l","e","d">>
\* "cancelled"
TextCancelledLower ==
    <<"c","a","n","c","e","l","l","e","d">>
\* "CANCELLED"
TextCancelledUpper ==
    <<"C","A","N","C","E","L","L","E","D">>
\* "ThrottlingException"
TextThrottlingException ==
    <<"T","h","r","o","t","t","l","i","n","g","E","x","c","e","p","t","i","o","n">>
\* "Rate exceeded"
TextRateExceeded ==
    <<"R","a","t","e"," ","e","x","c","e","e","d","e","d">>
\* "invocation does not exist"
TextNotYetVisible ==
    <<"i","n","v","o","c","a","t","i","o","n"," ","d","o","e","s"," ","n","o","t"," ","e","x","i","s","t">>
\* "boom"
TextBoom ==
    <<"b","o","o","m">>
\* "Access Denied"
TextAccessDenied ==
    <<"A","c","c","e","s","s"," ","D","e","n","i","e","d">>
\* "ENOENT: no such file or directory"
TextEnoent ==
    <<"E","N","O","E","N","T",":"," ","n","o"," ","s","u","c","h"," ","f","i","l","e"," ","o","r"," ","d","i","r","e","c","t","o","r","y">>
\* "EACCES: permission denied"
TextEacces ==
    <<"E","A","C","C","E","S",":"," ","p","e","r","m","i","s","s","i","o","n"," ","d","e","n","i","e","d">>
\* "/tmp/out/app.tgz"
PathAbs ==
    <<"/","t","m","p","/","o","u","t","/","a","p","p",".","t","g","z">>
\* "app.tgz"
PathRel ==
    <<"a","p","p",".","t","g","z">>
\* "bkt"
BucketBare ==
    <<"b","k","t">>
\* "s3://bkt"
BucketUri ==
    <<"s","3",":","/","/","b","k","t">>
\* "/opt/app.tgz"
RemotePathA ==
    <<"/","o","p","t","/","a","p","p",".","t","g","z">>
\* "i-1"
InstanceA ==
    <<"i","-","1">>
\* "cmd-1"
CommandIdA ==
    <<"c","m","d","-","1">>

\* ------------------------------------------------------------------------
\* JavaScript values
\* ------------------------------------------------------------------------

\* the empty string
EmptyString ==
    <<>>

\* an optional string property that is present
Some(s) ==
    [def |-> TRUE, str |-> s]

\* an optional string property that is undefined
None ==
    [def |-> FALSE, str |-> <<>>]

\* a || b on an optional string: undefined and "" are falsy
OrElse(opt, d) ==
    IF opt.def /\ opt.str # <<>> THEN opt.str ELSE d

\* ${v} of an optional string inside a template literal
Interpolate(opt) ==
    IF opt.def THEN opt.str ELSE UndefinedText

\* new Error(message): an Error whose name is "Error"; text is String(error)
NewError(message) ==
    [isError |-> TRUE, name |-> ErrorName, message |-> message,
     text |-> ErrorName \o ColonSpace \o message]

\* an Error raised by an SDK client or by fs, with its own name
NamedError(name, message) ==
    [isError |-> TRUE, name |-> name, message |-> message,
     text |-> name \o ColonSpace \o message]

\* a thrown value that is not an Error (a string s): String(s) is s, and it
\* has neither a name nor a message
ThrownString(s) ==
    [isError |-> FALSE, name |-> UndefinedText, message |-> UndefinedText,
     text |-> s]

\* error instanceof Error ? error.message : String(error)
ErrorMessageOf(thrown) ==
    IF thrown.isError THEN thrown.message ELSE thrown.text

UpperLetters ==
    <<"A","B","C","D","E","F","G","H","I","J","K","L","M",
      "N","O","P","Q","R","S","T","U","V","W","X","Y","Z">>

LowerLetters ==
    <<"a","b","c","d","e","f","g","h","i","j","k","l","m",
      "n","o","p","q","r","s","t","u","v","w","x","y","z">>

\* String.prototype.toLowerCase on one character
LowerChar(c) ==
    IF \E i \in DOMAIN UpperLetters : UpperLetters[i] = c
    THEN LowerLetters[CHOOSE i \in DOMAIN UpperLetters : UpperLetters[i] = c]
    ELSE c

\* String.prototype.toLowerCase
ToLowerCase(s) ==
    [i \in DOMAIN s |-> LowerChar(s[i])]

Digits ==
    <<"0","1","2","3","4","5","6","7","8","9">>

RECURSIVE NatToString(_)
\* ${n} of a non-negative integer
NatToString(n) ==
    IF n < 10 THEN <<Digits[n + 1]>>
    ELSE NatToString(n \div 10) \o <<Digits[(n % 10) + 1]>>

RECURSIVE StripTrailingZeros(_)
\* the digits of a decimal fraction without its trailing zeros
StripTrailingZeros(s) ==
    IF s # <<>> /\ s[Len(s)] = "0"
    THEN StripTrailingZeros(SubSeq(s, 1, Len(s) - 1))
    ELSE s

\* three digits of n in 0..999, zero padded
ThreeDigits(n) ==
    <<Digits[(n \div 100) + 1], Digits[((n \div 10) % 10) + 1], Digits[(n % 10) + 1]>>

\* ${n / 1000} of a non-negative integer n: the shortest decimal
QuotientToString(n, d) ==
    IF n % d = 0 THEN NatToString(n \div d)
    ELSE NatToString(n \div d) \o <<".">>
         \o StripTrailingZeros(ThreeDigits(((n % d) * 1000) \div d))

\* s.startsWith(p)
StartsWith(s, p) ==
    Len(s) >= Len(p) /\ SubSeq(s, 1, Len(p)) = p

\* s.endsWith(p)
EndsWith(s, p) ==
    Len(s) >= Len(p) /\ SubSeq(s, Len(s) - Len(p) + 1, Len(s)) = p

\* s.includes(p)
Includes(s, p) ==
    \E i \in 1..(Len(s) - Len(p) + 1) : SubSeq(s, i, i + Len(p) - 1) = p

RECURSIVE StripTrailingSlashes(_)
StripTrailingSlashes(s) ==
    IF s # <<>> /\ s[Len(s)] = "/"
    THEN StripTrailingSlashes(SubSeq(s, 1, Len(s) - 1))
    ELSE s

\* path.basename (POSIX): the part after the last "/", trailing "/" ignored
Basename(path) ==
    LET p == StripTrailingSlashes(path)
        slashes == {i \in DOMAIN p : p[i] = "/"}
        last == IF slashes = {} THEN 0
                ELSE CHOOSE i \in slashes : \A j \in slashes : j <= i
    IN  SubSeq(p, last + 1, Len(p))

\* ------------------------------------------------------------------------
\* Outcomes of a call: nothing yet, a returned value, a thrown value
\* ------------------------------------------------------------------------

NoOutcome ==
    [kind |-> "none"]

Returned(v) ==
    [kind |-> "return", value |-> v]

Threw(e) ==
    [kind |-> "throw", error |-> e]

\* ------------------------------------------------------------------------
\* index: getInputs and the outer catch of run
\* ------------------------------------------------------------------------

\* core.getInput(name, {required: true}): throws when the input is empty
RequiredInput(name, value) ==
    IF value = EmptyString
    THEN Threw(NewError(InputRequiredPrefix \o name))
    ELSE Returned(value)

\* getInputs: the four required inputs are read in this order
GetInputs(e) ==
    LET a == RequiredInput(InputLocalPath, e.localPath)
        b == RequiredInput(InputRemotePath, e.remotePath)
        c == RequiredInput(InputInstance, e.instance)
        d == RequiredInput(InputIntermediateS3, e.intermediateS3)
    IN  IF a.kind = "throw" THEN a
        ELSE IF b.kind = "throw" THEN b
        ELSE IF c.kind = "throw" THEN c
        ELSE IF d.kind = "throw" THEN d
        ELSE Returned(e)

\* the catch of run: the message passed to core.setFailed
RunCatch(thrown) ==
    IF thrown.isError THEN thrown.message ELSE UnknownErrorMessage

\* ------------------------------------------------------------------------
\* s3-upload: uploadFileToS3
\* ------------------------------------------------------------------------

\* variant: the name is used as given
StripScheme_Identity(bucketName) ==
    bucketName

\* bucketName.replace(/^s3:\/\//, "")
StripScheme(bucketName) ==
    IF StartsWith(bucketName, S3Scheme)
    THEN SubSeq(bucketName, Len(S3Scheme) + 1, Len(bucketName))
    ELSE bucketName

\* statSync(localPath) on a missing path
StatError(localPath) ==
    NamedError(ErrorName, TextEnoent \o StatSuffix \o localPath \o SingleQuote)

\* readFileSync(localPath) on a file that cannot be read
ReadError(localPath) ==
    NamedError(ErrorName, TextEacces \o OpenSuffix \o localPath \o SingleQuote)

\* variant: the isFile check is left out
VerifyFile_NoFileCheck(localPath, kind) ==
    LET inner == IF kind = "missing" THEN Threw(StatError(localPath))
                 ELSE Returned(TRUE)
    IN  IF inner.kind = "throw"
        THEN Threw(NewError(CannotAccessPrefix \o localPath \o DotSpace
                            \o ErrorMessageOf(inner.error)))
        ELSE inner

\* the "Verify file exists" block: what it throws, or that it passes
VerifyFile(localPath, kind) ==
    LET inner == IF kind = "missing" THEN Threw(StatError(localPath))
                 ELSE IF kind = "dir"
                      THEN Threw(NewError(localPath \o NotAFileSuffix))
                      ELSE Returned(TRUE)
    IN  IF inner.kind = "throw"
        THEN Threw(NewError(CannotAccessPrefix \o localPath \o DotSpace
                            \o ErrorMessageOf(inner.error)))
        ELSE inner

\* variant: the key is composed without the timestamp
StagingKey_NoTimestamp(localPath, timestamp) ==
    KeyPrefix \o Basename(localPath)

\* `github-actions-transfer/${timestamp}-${filename}`
StagingKey(localPath, timestamp) ==
    KeyPrefix \o NatToString(timestamp) \o Dash \o Basename(localPath)

\* `s3://${bucket}/${key}`
S3Uri(bucket, key) ==
    S3Scheme \o bucket \o Slash \o key

\* the S3UploadResult returned after a successful put
UploadResult(bucket, key) ==
    [bucket |-> bucket, key |-> key, s3Uri |-> S3Uri(bucket, key)]

\* the catch around readFileSync and the put
UploadCatch(thrown) ==
    NewError(UploadFailedPrefix \o ErrorMessageOf(thrown))

\* ------------------------------------------------------------------------
\* ssm-transfer: transferFileViaSSM
\* ------------------------------------------------------------------------

\* the command list of the SSM document
Commands(s3Uri, remotePath) ==
    << MkdirPrefix \o remotePath \o CloseParen,
       CopyPrefix \o s3Uri \o Space \o remotePath,
       EchoPrefix \o remotePath \o DoubleQuote >>

\* the SendCommandCommand input
SendCommandInput(instanceId, commands) ==
    [InstanceIds |-> <<instanceId>>, DocumentName |-> RunShellScript,
     commands |-> commands]

\* variant: only a missing identifier is rejected, an empty one is polled
MissingCommandId_UndefinedOnly(response) ==
    ~response.def

\* variant: every response is taken to carry a command identifier
MissingCommandId_Never(response) ==
    FALSE

\* !response.Command?.CommandId
MissingCommandId(response) ==
    ~response.def \/ response.str = EmptyString

\* variant: the catch rethrows what it caught
TransferCatch_Rethrow(thrown) ==
    thrown

\* the catch of transferFileViaSSM
TransferCatch(thrown) ==
    NewError(TransferFailedPrefix \o ErrorMessageOf(thrown))

\* variant: a failure of the poller is swallowed and a result is returned
TransferOutcome_Swallow(waitOutcome) ==
    IF waitOutcome.kind = "throw"
    THEN Returned(waitOutcome.error)
    ELSE waitOutcome

\* what transferFileViaSSM does with the outcome of waitForCommandCompletion
TransferOutcome(waitOutcome) ==
    IF waitOutcome.kind = "throw"
    THEN Threw(TransferCatch(waitOutcome.error))
    ELSE waitOutcome

\* AWS-RunShellScript runs the command lines in order as one sh script; no
\* line enables errexit, so the exit status is the last line's.  exits[i] is
\* the exit status of line i on the instance.
ScriptExitCode(commands, exits) ==
    exits[Len(commands)]

\* ------------------------------------------------------------------------
\* ssm-transfer: waitForCommandCompletion
\* ------------------------------------------------------------------------

\* variant: the loop runs one attempt too many
LoopContinues_OneMore(attempt, maxAtt) ==
    attempt <= maxAtt + 1

\* the for loop's condition
LoopContinues(attempt, maxAtt) ==
    attempt <= maxAtt

\* variant: Cancelled is not recognised as a terminal failure
StatusBranch_NoCancelled(status) ==
    IF status = Some(StatusSuccess) THEN "success"
    ELSE IF status = Some(StatusFailed) THEN "failed"
    ELSE IF status = Some(StatusInProgress) \/ status = Some(StatusPending)
            \/ status = Some(StatusDelayed)
         THEN "wait"
    ELSE "unexpected"

\* variant: a status that is not recognised is waited on
StatusBranch_RetryUnknown(status) ==
    IF status = Some(StatusSuccess) THEN "success"
    ELSE IF status = Some(StatusFailed) \/ status = Some(StatusCancelled)
         THEN "failed"
    ELSE "wait"

\* variant: the status is lower-cased before it is compared
StatusBranch_CaseInsensitive(status) ==
    LET low == IF status.def THEN Some(ToLowerCase(status.str)) ELSE status
    IN  IF low = Some(ToLowerCase(StatusSuccess)) THEN "success"
        ELSE IF low = Some(ToLowerCase(StatusFailed))
                \/ low = Some(ToLowerCase(StatusCancelled))
             THEN "failed"
        ELSE IF low = Some(ToLowerCase(StatusInProgress))
                \/ low = Some(ToLowerCase(StatusPending))
                \/ low = Some(ToLowerCase(StatusDelayed))
             THEN "wait"
        ELSE "unexpected"

\* the branch taken on the reported status
StatusBranch(status) ==
    IF status = Some(StatusSuccess) THEN "success"
    ELSE IF status = Some(StatusFailed) \/ status = Some(StatusCancelled)
         THEN "failed"
    ELSE IF status = Some(StatusInProgress) \/ status = Some(StatusPending)
            \/ status = Some(StatusDelayed)
         THEN "wait"
    ELSE "unexpected"

\* variant: the standard output is left out of the result
CommandResult_NoOutput(cmdId, invocation) ==
    [commandId |-> cmdId, status |-> invocation.Status.str,
     output |-> EmptyString]

\* the SSMCommandResult returned on Success
CommandResult(cmdId, invocation) ==
    [commandId |-> cmdId, status |-> invocation.Status.str,
     output |-> OrElse(invocation.StandardOutputContent, EmptyString)]

\* `SSM command ${status.toLowerCase()}: ${errorOutput}`
FailedMessage(invocation) ==
    SsmCommandPrefix \o ToLowerCase(invocation.Status.str) \o ColonSpace
    \o OrElse(invocation.StandardErrorContent, NoErrorOutput)

\* `Unexpected SSM command status: ${status}`
UnexpectedMessage(invocation) ==
    UnexpectedStatusPrefix \o Interpolate(invocation.Status)

\* `SSM command did not complete within ${(maxAttempts * delayMs) / 1000} seconds`
TimeoutMessage(maxAtt, delay) ==
    TimeoutPrefix \o QuotientToString(maxAtt * delay, MsPerSecond)
    \o TimeoutSuffix

\* the try block of one iteration, given the outcome of the status query:
\* it returns a result, throws, or sleeps
TryBody(cmdId, query) ==
    IF query.kind = "throw" THEN query
    ELSE LET inv == query.value
             branch == StatusBranch(inv.Status)
         IN  IF branch = "success" THEN Returned(CommandResult(cmdId, inv))
             ELSE IF branch = "failed"
                  THEN Threw(NewError(FailedMessage(inv)))
             ELSE IF branch = "wait" THEN [kind |-> "sleep"]
             ELSE Threw(NewError(UnexpectedMessage(inv)))

\* variant: every Error is taken for the not-yet-visible condition
NotYetAvailable_AnyError(thrown) ==
    thrown.isError

\* error instanceof Error && error.name === "InvocationDoesNotExist"
NotYetAvailable(thrown) ==
    thrown.isError /\ thrown.name = InvocationDoesNotExist

\* the catch block of one iteration
CatchBody(thrown) ==
    IF NotYetAvailable(thrown) THEN [kind |-> "sleep"] ELSE Threw(thrown)

\* one iteration of the loop
Iteration(cmdId, query) ==
    LET t == TryBody(cmdId, query)
    IN  IF t.kind = "throw" THEN CatchBody(t.error) ELSE t

\* ------------------------------------------------------------------------
\* The environment's answers
\* ------------------------------------------------------------------------

\* a GetCommandInvocation response
Invocation(status, out, err) ==
    [Status |-> status, StandardOutputContent |-> out,
     StandardErrorContent |-> err]

\* the answers a status query can get: a response, or a raised error
QueryOutcomes ==
    { Returned(Invocation(Some(StatusSuccess), o, None))
        : o \in {None, Some(EmptyString), Some(TextOk)} }
    \cup { Returned(Invocation(Some(s), None, e))
        : s \in {StatusFailed, StatusCancelled, TextFailedLower,
                 TextCancelledUpper},
          e \in {None, Some(TextDiskFull)} }
    \cup { Returned(Invocation(Some(s), None, None))
        : s \in {StatusInProgress, StatusPending, StatusDelayed,
                 TextThrottled} }
    \cup { Returned(Invocation(None, None, None)),
           Threw(NamedError(InvocationDoesNotExist, TextNotYetVisible)),
           Threw(NamedError(TextThrottlingException, TextRateExceeded)),
           Threw(ThrownString(TextBoom)) }

\* an answer that is not terminal: the invocation is not yet visible, or
\* the command is Pending, Delayed or InProgress
NonTerminalAnswer(answer) ==
    IF answer.kind = "throw"
    THEN answer.error.isError /\ answer.error.name = InvocationDoesNotExist
    ELSE answer.value.Status \in
            {Some(StatusPending), Some(StatusDelayed), Some(StatusInProgress)}

\* the answers a put can get
PutOutcomes ==
    { Returned(TRUE),
      Threw(NamedError(TextAccessDenied, TextAccessDenied)),
      Threw(ThrownString(TextBoom)) }

\* the answers a command submission can get: Command.CommandId, or an error
SendOutcomes ==
    { Returned(Some(CommandIdA)), Returned(Some(EmptyString)), Returned(None),
      Threw(NamedError(TextAccessDenied, TextAccessDenied)),
      Threw(ThrownString(TextBoom)) }

\* the exit statuses the three script lines can have on the instance
ExitChoices ==
    [1..3 -> {0, 1}]

\* the action's inputs as the workflow supplies them
EnvChoices ==
    [localPath : {EmptyString, PathAbs, PathRel},
     remotePath : {EmptyString, RemotePathA},
     instance : {EmptyString, InstanceA},
     intermediateS3 : {EmptyString, BucketBare, BucketUri}]

\* the inputs of a direct call of waitForCommandCompletion
DirectEnv ==
    [localPath |-> EmptyString, remotePath |-> EmptyString,
     instance |-> InstanceA, intermediateS3 |-> EmptyString]

\* what localPath names on disk
FileKinds ==
    {"missing", "dir", "file", "unreadable"}

\* the delayMs arguments of a direct call
DelayChoices ==
    {500, DefaultDelayMs}

\* ------------------------------------------------------------------------
\* State
\* ------------------------------------------------------------------------

VARIABLES
    entry,          \* the function invoked: "run" or "waitForCommandCompletion"
    env,            \* the action's inputs
    fileKind,       \* what env.localPath names on disk
    clock,          \* the value Date.now() returns
    maxAttempts,    \* parameter of waitForCommandCompletion
    delayMs,        \* parameter of waitForCommandCompletion
    pc,             \* the await the invocation is suspended at
    attempt,        \* the loop variable of waitForCommandCompletion
    putRequests,    \* the PutObject requests sent, in order
    bucketStore,    \* the objects the blob store holds
    sendRequests,   \* the SendCommand requests sent, in order
    polls,          \* number of GetCommandInvocation requests sent
    delays,         \* number of sleep(delayMs) calls
    nonTerminals,   \* number of non-terminal answers received so far
    commandId,      \* the command identifier being polled
    remoteExits,    \* exit statuses of the script lines on the instance
    lastQuery,      \* the answer to the latest status query
    uploadOutcome,  \* outcome of uploadFileToS3
    waitOutcome,    \* outcome of waitForCommandCompletion
    transferOutcome,\* outcome of transferFileViaSSM
    setFailedCalls, \* the messages passed to core.setFailed, in order
    successInfos,   \* number of times the final success message was logged
    lastSend,       \* the answer to the SendCommand request
    wallClock,      \* the wall clock two invocations read Date.now() from
    pair,           \* two invocations that run side by side
    pairStore       \* the blob store the two invocations share

vars ==
    <<entry, env, fileKind, clock, maxAttempts, delayMs, pc, attempt,
      putRequests, bucketStore, sendRequests, polls, delays, nonTerminals,
      commandId, remoteExits, lastQuery, uploadOutcome, waitOutcome,
      transferOutcome, setFailedCalls, successInfos, lastSend,
      wallClock, pair, pairStore>>

\* the state of the two invocations that run side by side
pairVars ==
    <<wallClock, pair, pairStore>>

\* the state of the single invocation
runVars ==
    <<entry, env, fileKind, clock, maxAttempts, delayMs, pc, attempt,
      putRequests, bucketStore, sendRequests, polls, delays, nonTerminals,
      commandId, remoteExits, lastQuery, uploadOutcome, waitOutcome,
      transferOutcome, setFailedCalls, successInfos, lastSend>>

config ==
    <<entry, env, fileKind, clock, maxAttempts, delayMs>>

NoExits ==
    [i \in 1..3 |-> 0]

\* one of two invocations before it starts, with its inputs
PairMember(path, bucketName, body) ==
    [pc |-> "ready", localPath |-> path, bucketName |-> bucketName,
     body |-> body, timestamp |-> 0, key |-> EmptyString,
     s3Uri |-> EmptyString, fetched |-> EmptyString]

\* no second invocation: the state of the pair when one invocation is run
PairIdle ==
    /\ wallClock = 0
    /\ pair = <<>>
    /\ pairStore = {}

Init ==
    /\ entry \in {"run", "waitForCommandCompletion"}
    /\ IF entry = "run"
       THEN /\ env \in EnvChoices
            /\ fileKind \in FileKinds
            /\ clock \in (MaxClock - 1)..MaxClock
            /\ maxAttempts = DefaultMaxAttempts
            /\ delayMs = DefaultDelayMs
       ELSE /\ env = DirectEnv
            /\ fileKind = "file"
            /\ clock = MaxClock
            /\ maxAttempts \in 0..MaxAttemptsArg
            /\ delayMs \in DelayChoices
    /\ pc = "ready"
    /\ attempt = 0
    /\ putRequests = <<>>
    /\ bucketStore = {}
    /\ sendRequests = <<>>
    /\ polls = 0
    /\ delays = 0
    /\ nonTerminals = 0
    /\ commandId = EmptyString
    /\ remoteExits = NoExits
    /\ lastQuery = NoOutcome
    /\ uploadOutcome = NoOutcome
    /\ waitOutcome = NoOutcome
    /\ transferOutcome = NoOutcome
    /\ setFailedCalls = <<>>
    /\ successInfos = 0
    /\ lastSend = NoOutcome
    /\ PairIdle

\* run's catch: the thrown value is reported and run ends
ReportFailure(thrown) ==
    /\ setFailedCalls' = Append(setFailedCalls, RunCatch(thrown))
    /\ successInfos' = successInfos
    /\ pc' = "done"

\* run's last statement: core.info("File transfer completed successfully!")
ReportSuccess ==
    /\ successInfos' = successInfos + 1
    /\ setFailedCalls' = setFailedCalls
    /\ pc' = "done"

\* transferFileViaSSM ends with this outcome and run goes on from there
TransferEnds(outcome) ==
    /\ transferOutcome' = outcome
    /\ IF outcome.kind = "throw"
       THEN ReportFailure(outcome.error)
       ELSE ReportSuccess

\* waitForCommandCompletion ends with this outcome; under run its caller
\* transferFileViaSSM goes on from there
WaitEnds(outcome) ==
    /\ waitOutcome' = outcome
    /\ IF entry = "run"
       THEN TransferEnds(TransferOutcome(outcome))
       ELSE /\ pc' = "done"
            /\ UNCHANGED <<transferOutcome, setFailedCalls, successInfos>>

\* variant: nothing is thrown after the loop, the function falls off its end
LoopHead_FallsOff(att) ==
    /\ attempt' = att
    /\ IF LoopContinues(att, maxAttempts)
       THEN /\ polls' = polls + 1
            /\ pc' = "poll"
            /\ UNCHANGED <<waitOutcome, transferOutcome, setFailedCalls,
                           successInfos>>
       ELSE /\ polls' = polls
            /\ WaitEnds(NoOutcome)

\* the head of the for loop with the loop variable at att: the next status
\* query is sent, or the loop is left and the timeout error is thrown
LoopHead(att) ==
    /\ attempt' = att
    /\ IF LoopContinues(att, maxAttempts)
       THEN /\ polls' = polls + 1
            /\ pc' = "poll"
            /\ UNCHANGED <<waitOutcome, transferOutcome, setFailedCalls,
                           successInfos>>
       ELSE /\ polls' = polls
            /\ WaitEnds(Threw(NewError(TimeoutMessage(maxAttempts, delayMs))))

\* run up to its first await: getInputs, then uploadFileToS3 up to the put
Run ==
    /\ entry = "run"
    /\ pc = "ready"
    /\ LET in == GetInputs(env)
           bucket == StripScheme(env.intermediateS3)
           verify == VerifyFile(env.localPath, fileKind)
           key == StagingKey(env.localPath, clock)
       IN  IF in.kind = "throw"
           THEN /\ ReportFailure(in.error)
                /\ UNCHANGED <<uploadOutcome, putRequests>>
           ELSE IF verify.kind = "throw"
           THEN /\ uploadOutcome' = verify
                /\ ReportFailure(verify.error)
                /\ UNCHANGED putRequests
           ELSE IF fileKind = "unreadable"
           THEN /\ uploadOutcome' =
                       Threw(UploadCatch(ReadError(env.localPath)))
                /\ ReportFailure(uploadOutcome'.error)
                /\ UNCHANGED putRequests
           ELSE /\ putRequests' =
                       Append(putRequests, [Bucket |-> bucket, Key |-> key])
                /\ pc' = "put"
                /\ UNCHANGED <<uploadOutcome, setFailedCalls, successInfos>>
    /\ UNCHANGED <<config, attempt, bucketStore, sendRequests, polls, delays,
                   nonTerminals, commandId, remoteExits, lastQuery, waitOutcome,
                   transferOutcome>>
    /\ UNCHANGED <<lastSend, pairVars>>

\* variant: a failed put is sent once more
PutObjectAnswered_RetryOnce ==
    /\ pc = "put"
    /\ \E answer \in PutOutcomes :
         LET req == putRequests[Len(putRequests)]
             s3Result == UploadResult(req.Bucket, req.Key)
         IN  IF answer.kind = "throw" /\ Len(putRequests) < 2
             THEN /\ putRequests' = Append(putRequests, req)
                  /\ UNCHANGED <<pc, uploadOutcome, bucketStore, sendRequests,
                                 setFailedCalls, successInfos>>
             ELSE IF answer.kind = "throw"
             THEN /\ uploadOutcome' = Threw(UploadCatch(answer.error))
                  /\ ReportFailure(uploadOutcome'.error)
                  /\ UNCHANGED <<bucketStore, sendRequests, putRequests>>
             ELSE /\ bucketStore' = bucketStore \cup {req}
                  /\ uploadOutcome' = Returned(s3Result)
                  /\ sendRequests' = Append(sendRequests,
                        SendCommandInput(env.instance,
                            Commands(s3Result.s3Uri, env.remotePath)))
                  /\ pc' = "send"
                  /\ UNCHANGED <<setFailedCalls, successInfos, putRequests>>
    /\ UNCHANGED <<config, attempt, polls, delays, nonTerminals,
                   commandId, remoteExits, lastQuery, waitOutcome,
                   transferOutcome>>
    /\ UNCHANGED <<lastSend, pairVars>>

\* the put is answered: uploadFileToS3 returns or throws; on a return run
\* calls transferFileViaSSM, which sends the command
PutObjectAnswered ==
    /\ pc = "put"
    /\ \E answer \in PutOutcomes :
         LET req == putRequests[Len(putRequests)]
             s3Result == UploadResult(req.Bucket, req.Key)
         IN  IF answer.kind = "throw"
             THEN /\ uploadOutcome' = Threw(UploadCatch(answer.error))
                  /\ ReportFailure(uploadOutcome'.error)
                  /\ UNCHANGED <<bucketStore, sendRequests>>
             ELSE /\ bucketStore' = bucketStore \cup {req}
                  /\ uploadOutcome' = Returned(s3Result)
                  /\ sendRequests' = Append(sendRequests,
                        SendCommandInput(env.instance,
                            Commands(s3Result.s3Uri, env.remotePath)))
                  /\ pc' = "send"
                  /\ UNCHANGED <<setFailedCalls, successInfos>>
    /\ UNCHANGED <<config, attempt, putRequests, polls, delays, nonTerminals,
                   commandId, remoteExits, lastQuery, waitOutcome,
                   transferOutcome>>
    /\ UNCHANGED <<lastSend, pairVars>>

\* the submission is answered: transferFileViaSSM throws, or calls
\* waitForCommandCompletion, which enters its loop
SendCommandAnswered ==
    /\ pc = "send"
    /\ \E answer \in SendOutcomes, exits \in ExitChoices :
       /\ lastSend' = answer
       /\ IF answer.kind = "throw"
         THEN /\ TransferEnds(Threw(TransferCatch(answer.error)))
              /\ UNCHANGED <<commandId, remoteExits, attempt, polls,
                             waitOutcome>>
         ELSE IF MissingCommandId(answer.value)
         THEN /\ TransferEnds(Threw(TransferCatch(
                                  NewError(NoCommandIdMessage))))
              /\ UNCHANGED <<commandId, remoteExits, attempt, polls,
                             waitOutcome>>
         ELSE /\ commandId' = answer.value.str
              /\ remoteExits' = exits
              /\ LoopHead(1)
    /\ UNCHANGED <<config, putRequests, bucketStore, sendRequests, delays,
                   nonTerminals, lastQuery, uploadOutcome>>
    /\ UNCHANGED pairVars

\* waitForCommandCompletion called on its own, with its own arguments
CallWaitForCommandCompletion ==
    /\ entry = "waitForCommandCompletion"
    /\ pc = "ready"
    /\ commandId' = CommandIdA
    /\ LoopHead(1)
    /\ UNCHANGED <<config, putRequests, bucketStore, sendRequests, delays,
                   nonTerminals, remoteExits, lastQuery, uploadOutcome>>
    /\ UNCHANGED <<lastSend, pairVars>>

\* under run the service reports what the script did: Success only for exit
\* status 0, Failed only for a non-zero one
Reportable(answer) ==
    IF entry # "run" \/ answer.kind = "throw" THEN TRUE
    ELSE LET exit == ScriptExitCode(
                         sendRequests[Len(sendRequests)].commands, remoteExits)
         IN  /\ answer.value.Status = Some(StatusSuccess) => exit = 0
             /\ answer.value.Status = Some(StatusFailed) => exit # 0

\* variant: after the answer to the last attempt the poller does not sleep
GetCommandInvocationAnswered_SkipLastSleep ==
    /\ pc = "poll"
    /\ \E answer \in QueryOutcomes :
         /\ Reportable(answer)
         /\ lastQuery' = answer
         /\ nonTerminals' =
                nonTerminals + (IF NonTerminalAnswer(answer) THEN 1 ELSE 0)
         /\ LET step == Iteration(commandId, answer)
            IN  IF step.kind = "sleep" /\ attempt < maxAttempts
                THEN /\ delays' = delays + 1
                     /\ pc' = "sleep"
                     /\ UNCHANGED <<waitOutcome, transferOutcome,
                                    setFailedCalls, successInfos>>
                ELSE IF step.kind = "sleep"
                THEN /\ WaitEnds(Threw(NewError(
                                   TimeoutMessage(maxAttempts, delayMs))))
                     /\ UNCHANGED delays
                ELSE /\ WaitEnds(step)
                     /\ UNCHANGED delays
    /\ UNCHANGED <<config, attempt, putRequests, bucketStore, sendRequests,
                   polls, commandId, remoteExits, uploadOutcome>>
    /\ UNCHANGED <<lastSend, pairVars>>

\* the status query is answered: one iteration of the loop up to its sleep,
\* return or throw
GetCommandInvocationAnswered ==
    /\ pc = "poll"
    /\ \E answer \in QueryOutcomes :
         /\ Reportable(answer)
         /\ lastQuery' = answer
         /\ nonTerminals' =
                nonTerminals + (IF NonTerminalAnswer(answer) THEN 1 ELSE 0)
         /\ LET step == Iteration(commandId, answer)
            IN  IF step.kind = "sleep"
                THEN /\ delays' = delays + 1
                     /\ pc' = "sleep"
                     /\ UNCHANGED <<waitOutcome, transferOutcome,
                                    setFailedCalls, successInfos>>
                ELSE /\ WaitEnds(step)
                     /\ UNCHANGED delays
    /\ UNCHANGED <<config, attempt, putRequests, bucketStore, sendRequests,
                   polls, commandId, remoteExits, uploadOutcome>>
    /\ UNCHANGED <<lastSend, pairVars>>

\* the sleep ends: attempt++ and the head of the loop
SleepResolved ==
    /\ pc = "sleep"
    /\ LoopHead(attempt + 1)
    /\ UNCHANGED <<config, putRequests, bucketStore, sendRequests, delays,
                   nonTerminals, commandId, remoteExits, lastQuery, uploadOutcome>>
    /\ UNCHANGED <<lastSend, pairVars>>

Next ==
    \/ Run
    \/ PutObjectAnswered
    \/ SendCommandAnswered
    \/ CallWaitForCommandCompletion
    \/ GetCommandInvocationAnswered
    \/ SleepResolved

Spec ==
    Init /\ [][Next]_vars

TypeOK ==
    /\ pc \in {"ready", "put", "send", "poll", "sleep", "done"}
    /\ attempt \in 0..(DefaultMaxAttempts + 1)
    /\ polls \in 0..DefaultMaxAttempts

\* ------------------------------------------------------------------------
\* Two invocations side by side: each stages its file with uploadFileToS3
\* and has the instance copy it back from the staged locator; they share
\* the wall clock and the blob store
\* ------------------------------------------------------------------------

\* "/srv/0-app.tgz"
PathDigit ==
    <<"/","s","r","v","/","0","-","a","p","p",".","t","g","z">>

\* the local paths of the two invocations
PairPaths ==
    {PathAbs, PathRel, PathDigit}

\* the container names of the two invocations
PairBuckets ==
    {BucketBare, BucketUri}

\* the bytes of the file invocation i stages
FileBody(i) ==
    <<Digits[i + 1]>>

\* the single invocation does not run
RunIdle ==
    /\ entry = "uploadFileToS3"
    /\ env = DirectEnv
    /\ fileKind = "file"
    /\ clock = 0
    /\ maxAttempts = DefaultMaxAttempts
    /\ delayMs = DefaultDelayMs
    /\ pc = "done"
    /\ attempt = 0
    /\ putRequests = <<>>
    /\ bucketStore = {}
    /\ sendRequests = <<>>
    /\ polls = 0
    /\ delays = 0
    /\ nonTerminals = 0
    /\ commandId = EmptyString
    /\ remoteExits = NoExits
    /\ lastQuery = NoOutcome
    /\ uploadOutcome = NoOutcome
    /\ waitOutcome = NoOutcome
    /\ transferOutcome = NoOutcome
    /\ setFailedCalls = <<>>
    /\ successInfos = 0
    /\ lastSend = NoOutcome

InitPair ==
    /\ RunIdle
    /\ wallClock = MaxClock - 1
    /\ \E paths \in [1..2 -> PairPaths], buckets \in [1..2 -> PairBuckets] :
         pair = [i \in 1..2 |-> PairMember(paths[i], buckets[i], FileBody(i))]
    /\ pairStore = {}

\* a millisecond passes
Tick ==
    /\ wallClock < MaxClock
    /\ wallClock' = wallClock + 1
    /\ UNCHANGED <<runVars, pair, pairStore>>

\* invocation i runs uploadFileToS3 up to its put: Date.now() is read and
\* the key is derived
PairStage(i) ==
    /\ pair[i].pc = "ready"
    /\ pair' = [pair EXCEPT ![i].pc = "put",
                            ![i].timestamp = wallClock,
                            ![i].key = StagingKey(pair[i].localPath, wallClock)]
    /\ UNCHANGED <<runVars, wallClock, pairStore>>

\* the object the store holds under a bucket and a key after a put
PutObject(store, bucket, key, body) ==
    {o \in store : ~(o.Bucket = bucket /\ o.Key = key)}
    \cup {[Bucket |-> bucket, Key |-> key, Body |-> body]}

\* the put of invocation i is answered: on success the object is in the
\* store and the copy command is dispatched with the locator
PairPutAnswered(i) ==
    /\ pair[i].pc = "put"
    /\ \E answer \in PutOutcomes :
         LET bucket == StripScheme(pair[i].bucketName)
         IN  IF answer.kind = "throw"
             THEN /\ pair' = [pair EXCEPT ![i].pc = "failed"]
                  /\ UNCHANGED pairStore
             ELSE /\ pairStore' = PutObject(pairStore, bucket, pair[i].key,
                                            pair[i].body)
                  /\ pair' = [pair EXCEPT
                                ![i].pc = "copy",
                                ![i].s3Uri =
                                    UploadResult(bucket, pair[i].key).s3Uri]
    /\ UNCHANGED <<runVars, wallClock>>

\* the instance runs `aws s3 cp ${s3Uri} ${remotePath}` of invocation i: it
\* gets the bytes the store holds at the locator
PairCopy(i) ==
    /\ pair[i].pc = "copy"
    /\ \E o \in pairStore :
         /\ S3Uri(o.Bucket, o.Key) = pair[i].s3Uri
         /\ pair' = [pair EXCEPT ![i].pc = "done", ![i].fetched = o.Body]
    /\ UNCHANGED <<runVars, wallClock, pairStore>>

NextPair ==
    \/ Tick
    \/ \E i \in 1..2 : PairStage(i)
    \/ \E i \in 1..2 : PairPutAnswered(i)
    \/ \E i \in 1..2 : PairCopy(i)

SpecPair ==
    InitPair /\ [][NextPair]_vars

\* ------------------------------------------------------------------------
\* Vocabulary of the properties
\* ------------------------------------------------------------------------

\* the latest status query was answered with a response
Responded ==
    lastQuery.kind = "return"

\* the status the latest response carries
LastStatus ==
    lastQuery.value.Status

\* the latest status query raised an error
QueryRaised ==
    lastQuery.kind = "throw"

\* waitForCommandCompletion has thrown an Error made by `new Error`
WaitThrewError ==
    /\ waitOutcome.kind = "throw"
    /\ waitOutcome.error.isError
    /\ waitOutcome.error.name = ErrorName

\* the latest answer was the last thing the poller did: no delay after it,
\* no poll after it
EndedOnLastAnswer ==
    /\ pc = "done"
    /\ polls = nonTerminals + 1
    /\ delays = nonTerminals

\* the value of a decimal digit
DigitValue(c) ==
    (CHOOSE i \in DOMAIN Digits : Digits[i] = c) - 1

RECURSIVE DigitsValue(_)
\* the number a string of decimal digits denotes
DigitsValue(s) ==
    IF s = <<>> THEN 0
    ELSE 10 * DigitsValue(SubSeq(s, 1, Len(s) - 1)) + DigitValue(s[Len(s)])

\* a decimal numeral with at most three fraction digits
IsDecimal(s) ==
    /\ s # <<>>
    /\ \A i \in DOMAIN s : s[i] = "." \/ \E j \in DOMAIN Digits : Digits[j] = s[i]
    /\ Cardinality({i \in DOMAIN s : s[i] = "."}) <= 1
    /\ s[1] # "." /\ s[Len(s)] # "."
    /\ \A i \in DOMAIN s : s[i] = "." => Len(s) - i <= 3

\* one thousand times the number a decimal numeral denotes
Thousandths(s) ==
    LET dots == {i \in DOMAIN s : s[i] = "."}
        dot == IF dots = {} THEN Len(s) + 1 ELSE CHOOSE i \in dots : TRUE
        whole == SubSeq(s, 1, dot - 1)
        frac == SubSeq(s, dot + 1, Len(s))
        pad == IF Len(frac) = 0 THEN 1000 ELSE IF Len(frac) = 1 THEN 100
               ELSE IF Len(frac) = 2 THEN 10 ELSE 1
    IN  1000 * DigitsValue(whole) + pad * DigitsValue(frac)

\* the text between a prefix and a suffix of a message
Between(s, prefix, suffix) ==
    SubSeq(s, Len(prefix) + 1, Len(s) - Len(suffix))

\* ------------------------------------------------------------------------
\* Properties
\* ------------------------------------------------------------------------

\* C1: when the status query is answered Success after k non-terminal
\* answers, waitForCommandCompletion returns status Success with the
\* response's standard output ("" when there is none), after exactly k+1
\* polls and k delays.
C1_SuccessPath ==
    (Responded /\ LastStatus = Some(StatusSuccess)) =>
        /\ nonTerminals < maxAttempts
        /\ waitOutcome.kind = "return"
        /\ waitOutcome.value.status = StatusSuccess
        /\ waitOutcome.value.output =
              (IF lastQuery.value.StandardOutputContent.def
               THEN lastQuery.value.StandardOutputContent.str
               ELSE EmptyString)
        /\ polls = nonTerminals + 1
        /\ delays = nonTerminals

\* three non-terminal answers, then Success with output "ok": 4 polls, 3 delays
C1_Witness ==
    /\ entry = "waitForCommandCompletion"
    /\ pc = "done"
    /\ nonTerminals = 3
    /\ Responded /\ LastStatus = Some(StatusSuccess)
    /\ lastQuery.value.StandardOutputContent = Some(TextOk)
    /\ waitOutcome = Returned([commandId |-> CommandIdA,
                               status |-> StatusSuccess, output |-> TextOk])
    /\ polls = 4
    /\ delays = 3

\* C2: the number of status polls never exceeds maxAttempts, not-yet-visible
\* answers included; once maxAttempts non-terminal answers have come in, the
\* poller is in its last delay or has thrown the timeout error, whose stated
\* number of seconds is maxAttempts * delayMs / 1000, with exactly
\* maxAttempts polls sent.
C2_AttemptBudget ==
    /\ polls <= maxAttempts
    /\ (nonTerminals = maxAttempts /\ pc \in {"poll", "sleep", "done"}) =>
          \/ pc = "sleep" /\ polls = maxAttempts
          \/ /\ pc = "done"
             /\ polls = maxAttempts
             /\ WaitThrewError
             /\ LET m == waitOutcome.error.message
                    n == Between(m, TimeoutPrefix, TimeoutSuffix)
                IN  /\ StartsWith(m, TimeoutPrefix)
                    /\ EndsWith(m, TimeoutSuffix)
                    /\ IsDecimal(n)
                    /\ Thousandths(n) = maxAttempts * delayMs

\* a direct call with maxAttempts = 3 and delayMs = 500 that saw three
\* non-terminal answers and timed out, stating 1.5 seconds
C2_Witness ==
    /\ entry = "waitForCommandCompletion"
    /\ maxAttempts = 3 /\ delayMs = 500
    /\ pc = "done"
    /\ nonTerminals = 3
    /\ polls = 3
    /\ waitOutcome.kind = "throw"
    /\ Between(waitOutcome.error.message, TimeoutPrefix, TimeoutSuffix)
          = <<"1", ".", "5">>

\* C3: when a status poll is answered Failed or Cancelled, the poller throws
\* on that poll an error carrying the captured standard error, or "No error
\* output" when there is none; no delay and no poll follow, and the error
\* is not taken for the not-yet-visible condition.
C3_TerminalFailure ==
    (Responded /\ LastStatus \in {Some(StatusFailed), Some(StatusCancelled)}) =>
        /\ EndedOnLastAnswer
        /\ WaitThrewError
        /\ StartsWith(waitOutcome.error.message, SsmCommandPrefix)
        /\ ~StartsWith(waitOutcome.error.message, UnexpectedStatusPrefix)
        /\ LET err == lastQuery.value.StandardErrorContent
           IN  IF err.def /\ err.str # EmptyString
               THEN EndsWith(waitOutcome.error.message, ColonSpace \o err.str)
               ELSE EndsWith(waitOutcome.error.message,
                             ColonSpace \o NoErrorOutput)

\* Cancelled with standard error "disk full" on the second poll, with
\* attempts left
C3_Witness ==
    /\ pc = "done"
    /\ Responded /\ LastStatus = Some(StatusCancelled)
    /\ lastQuery.value.StandardErrorContent = Some(TextDiskFull)
    /\ polls = 2 /\ polls < maxAttempts
    /\ waitOutcome.kind = "throw"
    /\ Includes(waitOutcome.error.message, TextDiskFull)

\* C4: when a status poll is answered with a status outside Pending,
\* Delayed, InProgress, Success, Failed, Cancelled (a missing status
\* included), the poller throws the unexpected-status error on that poll; no
\* delay and no poll follow, however many attempts are left.
C4_UnexpectedStatus ==
    (Responded /\ LastStatus \notin
        {Some(StatusPending), Some(StatusDelayed), Some(StatusInProgress),
         Some(StatusSuccess), Some(StatusFailed), Some(StatusCancelled)}) =>
        /\ EndedOnLastAnswer
        /\ WaitThrewError
        /\ StartsWith(waitOutcome.error.message, UnexpectedStatusPrefix)

\* "Throttled" on the first poll of a call with attempts left
C4_Witness ==
    /\ pc = "done"
    /\ Responded /\ LastStatus = Some(TextThrottled)
    /\ polls = 1 /\ maxAttempts > 1
    /\ waitOutcome.kind = "throw"
    /\ StartsWith(waitOutcome.error.message, UnexpectedStatusPrefix)

\* C5: when a status query raises anything but the not-yet-visible error
\* (name InvocationDoesNotExist), the poller throws that same value on that
\* poll, with no delay and no further poll; a raised query leads to a delay
\* and a next attempt only when it is the not-yet-visible error.
C5_QueryErrors ==
    /\ (QueryRaised /\ lastQuery.error.name # InvocationDoesNotExist) =>
          /\ EndedOnLastAnswer
          /\ waitOutcome = lastQuery
    /\ (QueryRaised /\ pc \in {"sleep", "poll"}) =>
          lastQuery.error.name = InvocationDoesNotExist

\* a ThrottlingException on the second poll, after a not-yet-visible answer
C5_Witness ==
    /\ pc = "done"
    /\ QueryRaised
    /\ lastQuery.error.name = TextThrottlingException
    /\ polls = 2 /\ delays = 1 /\ maxAttempts > 2
    /\ waitOutcome = lastQuery

\* the reported status differs from Failed or Cancelled in letter case only
CaseVariantOfFailure ==
    /\ Responded
    /\ LastStatus.def
    /\ LastStatus.str \notin {StatusFailed, StatusCancelled}
    /\ ToLowerCase(LastStatus.str) \in
          {ToLowerCase(StatusFailed), ToLowerCase(StatusCancelled)}

\* C6 as stated: a status that is Failed or Cancelled up to letter case
\* raises the remote-execution error carrying the standard error, not the
\* unexpected-status error.
C6_CaseNormalized ==
    CaseVariantOfFailure =>
        /\ WaitThrewError
        /\ StartsWith(waitOutcome.error.message, SsmCommandPrefix)
        /\ ~StartsWith(waitOutcome.error.message, UnexpectedStatusPrefix)
        /\ EndsWith(waitOutcome.error.message,
              ColonSpace \o (IF lastQuery.value.StandardErrorContent.def
                             THEN lastQuery.value.StandardErrorContent.str
                             ELSE NoErrorOutput))

\* C6 amended: the status is compared exactly; a status that differs from
\* Failed or Cancelled in letter case raises the unexpected-status error
\* naming the status as reported, on that poll.  Lower case is applied only
\* to the status named in the message of the remote-execution error, which
\* exactly Failed and Cancelled raise.
C6_ExactComparison ==
    /\ CaseVariantOfFailure =>
          /\ EndedOnLastAnswer
          /\ WaitThrewError
          /\ waitOutcome.error.message = UnexpectedStatusPrefix \o LastStatus.str
    /\ (Responded /\ LastStatus = Some(StatusFailed)) =>
          /\ WaitThrewError
          /\ StartsWith(waitOutcome.error.message,
                        SsmCommandPrefix \o TextFailedLower \o ColonSpace)
    /\ (Responded /\ LastStatus = Some(StatusCancelled)) =>
          /\ WaitThrewError
          /\ StartsWith(waitOutcome.error.message,
                        SsmCommandPrefix \o TextCancelledLower \o ColonSpace)

\* the status "failed" with standard error "disk full" raised the
\* unexpected-status error
C6_Witness ==
    /\ pc = "done"
    /\ Responded /\ LastStatus = Some(TextFailedLower)
    /\ lastQuery.value.StandardErrorContent = Some(TextDiskFull)
    /\ waitOutcome.kind = "throw"
    /\ waitOutcome.error.message = UnexpectedStatusPrefix \o TextFailedLower

\* C7: the submitted command list is make-directory, copy from the staged
\* locator to remotePath, completion marker, in this order; and a run whose
\* copy step failed on the instance is never reported Success.
C7_CopyFailurePropagates ==
    (entry = "run" /\ sendRequests # <<>>) =>
        LET c == sendRequests[1].commands
        IN  /\ Len(c) = 3
            /\ StartsWith(c[1], MkdirPrefix)
            /\ c[2] = CopyPrefix \o uploadOutcome.value.s3Uri \o Space
                      \o env.remotePath
            /\ StartsWith(c[3], EchoPrefix)
            /\ (commandId # EmptyString /\ remoteExits[2] # 0) =>
                  ~(Responded /\ LastStatus = Some(StatusSuccess))

C8_Order ==
    /\ Len(putRequests) <= 1
    /\ Len(sendRequests) <= 1
    /\ sendRequests # <<>> =>
          /\ uploadOutcome.kind = "return"
          /\ putRequests[1] \in bucketStore
    /\ (entry = "run" /\ polls > 0) =>
          /\ Len(sendRequests) = 1
          /\ commandId # EmptyString
    /\ uploadOutcome.kind = "throw" =>
          /\ pc = "done"
          /\ sendRequests = <<>>
          /\ polls = 0
    /\ (entry = "run" /\ pc = "done" /\ commandId = EmptyString) =>
          polls = 0

C8_NoReExecution ==
    /\ sendRequests # <<>> =>
          /\ putRequests' = putRequests
          /\ uploadOutcome' = uploadOutcome
    /\ polls > 0 =>
          /\ sendRequests' = sendRequests
          /\ commandId' = commandId
          /\ putRequests' = putRequests

\* C8: in run the put has succeeded before the command is submitted, and
\* the submission has returned a command identifier before the first status
\* poll; when staging fails nothing is submitted and nothing is polled,
\* when submission fails nothing is polled; no stage runs again once a
\* later one has started.
C8_StageSequencing ==
    []C8_Order /\ [][C8_NoReExecution]_vars

\* a run that staged, submitted and polled twice
C8_Witness ==
    /\ entry = "run"
    /\ Len(putRequests) = 1 /\ Len(sendRequests) = 1
    /\ commandId = CommandIdA
    /\ polls = 2

\* C9 as stated: the reason run reports is exactly the message of the error
\* the failing stage raised, the completion poller included.
C9_Unmodified ==
    (entry = "run" /\ pc = "done") =>
        /\ uploadOutcome.kind = "throw" =>
              setFailedCalls = <<uploadOutcome.error.message>>
        /\ (transferOutcome.kind = "throw" /\ waitOutcome.kind = "none") =>
              setFailedCalls = <<transferOutcome.error.message>>
        /\ (waitOutcome.kind = "throw" /\ waitOutcome.error.isError) =>
              setFailedCalls = <<waitOutcome.error.message>>

\* C9 amended: the reason run reports is exactly the message of the error
\* thrown by uploadFileToS3 or by transferFileViaSSM; an error raised by
\* the completion poller is reported with its message (its string form when
\* it is not an Error) behind the prefix "Failed to transfer file via SSM: ".
C9_Wrapped ==
    (entry = "run" /\ pc = "done") =>
        /\ uploadOutcome.kind = "throw" =>
              setFailedCalls = <<uploadOutcome.error.message>>
        /\ transferOutcome.kind = "throw" =>
              setFailedCalls = <<transferOutcome.error.message>>
        /\ waitOutcome.kind = "throw" =>
              setFailedCalls =
                 << TransferFailedPrefix \o
                    (IF waitOutcome.error.isError
                     THEN waitOutcome.error.message
                     ELSE waitOutcome.error.text) >>

\* a run whose poller timed out: the reason is the poller's message behind
\* the prefix
C9_Witness ==
    /\ entry = "run"
    /\ pc = "done"
    /\ waitOutcome.kind = "throw"
    /\ StartsWith(waitOutcome.error.message, TimeoutPrefix)
    /\ setFailedCalls = <<TransferFailedPrefix \o waitOutcome.error.message>>

\* C10: a finished run has reported exactly one of success and failure, and
\* an unfinished one neither; success is reported only after a status poll
\* answered Success; when staging, dispatch or polling failed,
\* core.setFailed was called exactly once and success was not logged.
C10_SingleOutcome ==
    entry = "run" =>
        /\ pc # "done" => (successInfos = 0 /\ setFailedCalls = <<>>)
        /\ pc = "done" => successInfos + Len(setFailedCalls) = 1
        /\ successInfos > 0 =>
              /\ polls > 0
              /\ Responded /\ LastStatus = Some(StatusSuccess)
        /\ (\/ uploadOutcome.kind = "throw"
            \/ transferOutcome.kind = "throw"
            \/ waitOutcome.kind = "throw") =>
              (Len(setFailedCalls) = 1 /\ successInfos = 0)

\* a run that reported success after its second poll
C10_Witness ==
    /\ entry = "run"
    /\ pc = "done"
    /\ successInfos = 1
    /\ setFailedCalls = <<>>
    /\ polls = 2

\* C11: when the submission call returns with no command identifier, or an
\* empty one, transferFileViaSSM throws the dispatch error and
\* waitForCommandCompletion is never invoked: no status poll is sent.
C11_MissingCommandId ==
    (lastSend.kind = "return"
     /\ (~lastSend.value.def \/ lastSend.value.str = EmptyString)) =>
        /\ pc = "done"
        /\ transferOutcome.kind = "throw"
        /\ transferOutcome.error.isError
        /\ EndsWith(transferOutcome.error.message, NoCommandIdMessage)
        /\ waitOutcome.kind = "none"
        /\ polls = 0
        /\ attempt = 0
        /\ lastQuery.kind = "none"

\* the submission returned an empty command identifier and the run failed
\* without a poll
C11_Witness ==
    /\ lastSend = Returned(Some(EmptyString))
    /\ pc = "done"
    /\ polls = 0
    /\ transferOutcome.kind = "throw"
    /\ Len(setFailedCalls) = 1

\* the four required inputs are supplied
InputsSupplied ==
    /\ env.localPath # EmptyString
    /\ env.remotePath # EmptyString
    /\ env.instance # EmptyString
    /\ env.intermediateS3 # EmptyString

\* C12: when localPath is missing or is a directory, uploadFileToS3 throws
\* the local-file error naming the path before anything is sent: no put
\* request exists at any time of such a run, and nothing is submitted.
C12_StagingPrecondition ==
    (entry = "run" /\ fileKind \in {"missing", "dir"}) =>
        /\ putRequests = <<>>
        /\ bucketStore = {}
        /\ sendRequests = <<>>
        /\ pc \in {"ready", "done"}
        /\ (pc = "done" /\ InputsSupplied) =>
              /\ uploadOutcome.kind = "throw"
              /\ uploadOutcome.error.isError
              /\ StartsWith(uploadOutcome.error.message,
                            CannotAccessPrefix \o env.localPath \o DotSpace)

\* localPath names a directory: the run failed with the local-file error
\* and no put was sent
C12_Witness ==
    /\ entry = "run"
    /\ fileKind = "dir"
    /\ pc = "done"
    /\ putRequests = <<>>
    /\ uploadOutcome.kind = "throw"
    /\ EndsWith(uploadOutcome.error.message, env.localPath \o NotAFileSuffix)
    /\ Len(setFailedCalls) = 1

\* staging and dispatch succeeded and the first poll answered Success
FirstPollSuccess ==
    /\ entry = "run"
    /\ pc = "done"
    /\ uploadOutcome.kind = "return"
    /\ lastSend.kind = "return"
    /\ polls = 1
    /\ Responded /\ LastStatus = Some(StatusSuccess)

\* C13: the result record returned for such a run embeds the staged
\* object's locator, equal to the one staging produced.
C13_EmbeddedLocator ==
    FirstPollSuccess =>
        /\ transferOutcome.kind = "return"
        /\ "s3Uri" \in DOMAIN transferOutcome.value
        /\ transferOutcome.value.s3Uri = uploadOutcome.value.s3Uri

\* invocation i has derived its staging key
Staged(i) ==
    pair[i].pc # "ready"

\* the part of a staging key behind the namespace prefix
KeyRest(key) ==
    SubSeq(key, Len(KeyPrefix) + 1, Len(key))

\* the position of the first "-" of a string that has one
FirstDash(s) ==
    CHOOSE i \in DOMAIN s : s[i] = "-" /\ \A j \in 1..(i - 1) : s[j] # "-"

\* the part of a staging key between the prefix and the first "-"
KeyStamp(key) ==
    SubSeq(KeyRest(key), 1, FirstDash(KeyRest(key)) - 1)

\* the part of a staging key behind the first "-"
KeyName(key) ==
    SubSeq(KeyRest(key), FirstDash(KeyRest(key)) + 1, Len(KeyRest(key)))

\* name is path without its directory components
IsBasenameOf(name, path) ==
    /\ name # EmptyString
    /\ \A i \in DOMAIN name : name[i] # "/"
    /\ EndsWith(path, name)
    /\ Len(path) > Len(name) => path[Len(path) - Len(name)] = "/"

\* C14: a staging key is the namespace prefix, "/", the decimal millisecond
\* timestamp, "-", and the basename of the local path, so it ends with the
\* basename; two invocations whose clock reads differ derive different
\* keys, also for the same basename.
C14_KeyDerivation ==
    /\ \A i \in DOMAIN pair : Staged(i) =>
          LET key == pair[i].key
          IN  /\ StartsWith(key, KeyPrefix)
              /\ \E d \in DOMAIN KeyRest(key) : KeyRest(key)[d] = "-"
              /\ KeyStamp(key) # EmptyString
              /\ \A d \in DOMAIN KeyStamp(key) :
                    \E n \in DOMAIN Digits : Digits[n] = KeyStamp(key)[d]
              /\ DigitsValue(KeyStamp(key)) = pair[i].timestamp
              /\ IsBasenameOf(KeyName(key), pair[i].localPath)
              /\ EndsWith(key, KeyName(key))
    /\ \A i, j \in DOMAIN pair :
          (Staged(i) /\ Staged(j) /\ pair[i].timestamp # pair[j].timestamp)
              => pair[i].key # pair[j].key

\* two invocations with the same basename, staged one millisecond apart,
\* with different keys
C14_Witness ==
    /\ pair # <<>>
    /\ Staged(1) /\ Staged(2)
    /\ pair[1].localPath = PathAbs /\ pair[2].localPath = PathRel
    /\ pair[2].timestamp = pair[1].timestamp + 1
    /\ KeyName(pair[1].key) = KeyName(pair[2].key)
    /\ pair[1].key # pair[2].key

\* C15: two invocations that run side by side against the same container
\* with the same file name derive distinct staging keys, and the copy of
\* each retrieves the bytes its own invocation staged.
C15_ConcurrentKeysDistinct ==
    /\ \A i, j \in DOMAIN pair :
          (/\ i # j
           /\ Staged(i) /\ Staged(j)
           /\ StripScheme(pair[i].bucketName) = StripScheme(pair[j].bucketName)
           /\ Basename(pair[i].localPath) = Basename(pair[j].localPath))
              => pair[i].key # pair[j].key
    /\ \A i \in DOMAIN pair :
          pair[i].pc = "done" => pair[i].fetched = pair[i].body

\* the inputs of a run that gets as far as the poller
PollerEnv ==
    [localPath |-> PathAbs, remotePath |-> RemotePathA,
     instance |-> InstanceA, intermediateS3 |-> BucketUri]

\* the single invocation with the inputs of run fixed: what varies is what
\* the services answer
InitFair ==
    /\ Init
    /\ entry = "run" =>
          (env = PollerEnv /\ fileKind = "file" /\ clock = MaxClock)

\* the single invocation under the event loop's scheduling: a continuation
\* whose await has been answered is run
SpecFair ==
    InitFair /\ [][Next]_vars /\ WF_vars(Next)

\* waitForCommandCompletion has returned or thrown
Resolved ==
    waitOutcome.kind \in {"return", "throw"}

\* the ways waitForCommandCompletion resolves
C16_Resolution ==
    /\ (commandId # EmptyString /\ pc = "done") => Resolved
    /\ (commandId # EmptyString /\ pc # "done") => ~Resolved
    /\ waitOutcome.kind = "return" =>
          /\ waitOutcome.value.status = StatusSuccess
          /\ Responded /\ LastStatus = Some(StatusSuccess)
    /\ waitOutcome.kind = "throw" =>
          \/ /\ Responded
             /\ LastStatus \in {Some(StatusFailed), Some(StatusCancelled)}
             /\ StartsWith(waitOutcome.error.message, SsmCommandPrefix)
          \/ /\ Responded
             /\ StartsWith(waitOutcome.error.message, UnexpectedStatusPrefix)
          \/ /\ QueryRaised
             /\ waitOutcome = lastQuery
          \/ /\ nonTerminals = maxAttempts
             /\ StartsWith(waitOutcome.error.message, TimeoutPrefix)

\* once resolved, the outcome stays and no poll is sent
C16_Once ==
    Resolved => (waitOutcome' = waitOutcome /\ polls' = polls /\ pc' = "done")

\* C16: once a command identifier has been obtained,
\* waitForCommandCompletion ends, and it ends in exactly one of a Success
\* result, a remote-execution error, an unexpected-status error, a query
\* error, or the timeout error; the outcome never changes afterwards and no
\* poll is sent after it.
C16_ExactlyOneResolution ==
    /\ []C16_Resolution
    /\ [][C16_Once]_vars
    /\ (commandId # EmptyString) ~> (pc = "done" /\ Resolved)

\* a run whose poller used all 60 attempts and resolved with the timeout
C16_Witness ==
    /\ entry = "run"
    /\ commandId = CommandIdA
    /\ pc = "done"
    /\ polls = DefaultMaxAttempts
    /\ waitOutcome.kind = "throw"
    /\ StartsWith(waitOutcome.error.message, TimeoutPrefix)

C17_Store ==
    /\ Len(putRequests) <= 1
    /\ \A o \in bucketStore : putRequests # <<>> /\ o = putRequests[1]
    /\ uploadOutcome.kind = "return" => putRequests[1] \in bucketStore
    /\ (entry = "run" /\ pc = "done" /\ putRequests # <<>>
        /\ bucketStore = {}) =>
          /\ uploadOutcome.kind = "throw"
          /\ StartsWith(uploadOutcome.error.message, UploadFailedPrefix)
          /\ setFailedCalls = <<uploadOutcome.error.message>>
          /\ sendRequests = <<>>

C17_Frame ==
    /\ putRequests # <<>> => putRequests' = putRequests
    /\ bucketStore # {} => bucketStore' = bucketStore

\* C17: an invocation sends at most one put request: a failed put is not
\* sent again and fails the run with the staging error; once the put has
\* succeeded the staged object stays in the store unchanged through every
\* later stage and every failure path.
C17_SinglePutLeaveBehind ==
    []C17_Store /\ [][C17_Frame]_vars

\* a run whose command was reported Failed: the staged object is still in
\* the store
C17_Witness ==
    /\ entry = "run"
    /\ pc = "done"
    /\ Responded /\ LastStatus = Some(StatusFailed)
    /\ Len(setFailedCalls) = 1
    /\ Len(putRequests) = 1
    /\ bucketStore = {putRequests[1]}

\* C18: for a container name that starts with "s3://" the bucket of the put
\* and of the result is the name without this leading prefix, for any other
\* name it is the name itself; the locator is "s3://" + bucket + "/" + key,
\* so "bkt" and "s3://bkt" give the same bucket.
C18_ContainerNormalization ==
    (entry = "run" /\ putRequests # <<>>) =>
        LET name == env.intermediateS3
            b == putRequests[1].Bucket
        IN  /\ IF Len(name) >= 5 /\ SubSeq(name, 1, 5) = S3Scheme
               THEN name = S3Scheme \o b
               ELSE b = name
            /\ name \in {BucketBare, BucketUri} => b = BucketBare
            /\ uploadOutcome.kind = "return" =>
                  /\ uploadOutcome.value.bucket = b
                  /\ uploadOutcome.value.s3Uri =
                        S3Scheme \o b \o Slash \o uploadOutcome.value.key

\* a run given "s3://bkt" staged into bucket "bkt"
C18_Witness ==
    /\ entry = "run"
    /\ env.intermediateS3 = BucketUri
    /\ uploadOutcome.kind = "return"
    /\ uploadOutcome.value.bucket = BucketBare
    /\ StartsWith(uploadOutcome.value.s3Uri, BucketUri \o Slash \o KeyPrefix)

\* C19: every non-terminal answer is followed by exactly one delay, the
\* answer to the last budgeted attempt included: the number of delays
\* equals the number of non-terminal answers in every state, a sleeping
\* poller has slept once per poll, and a poller that timed out has made
\* maxAttempts delays.
C19_DelaysVersusPolls ==
    /\ delays = nonTerminals
    /\ pc = "sleep" =>
          /\ NonTerminalAnswer(lastQuery)
          /\ delays = polls
    /\ (waitOutcome.kind = "throw"
        /\ StartsWith(waitOutcome.error.message, TimeoutPrefix)) =>
          /\ delays = maxAttempts
          /\ polls = maxAttempts

\* a direct call with maxAttempts = 2 that timed out after two delays
C19_Witness ==
    /\ entry = "waitForCommandCompletion"
    /\ maxAttempts = 2
    /\ pc = "done"
    /\ waitOutcome.kind = "throw"
    /\ StartsWith(waitOutcome.error.message, TimeoutPrefix)
    /\ delays = 2
    /\ nonTerminals = 2
====
